---- MODULE Spec2Model ----
(***************************************************************************)
(* Folve: the per-open file handler (pass-through / convolving), its       *)
(* dynamic size estimate, the FLAC header splice, the open-file map and    *)
(* the convolver configuration step.                                       *)
(*                                                                         *)
(* Sources: src/unnamed/part_000 (the handler, the open-file map and the   *)
(* C interface) and src/sound-processor.cc (SoundProcessor).               *)
(***************************************************************************)
EXTENDS Integers, Sequences, FiniteSets, TLC

(***************************************************************************)
(* State.                                                                  *)
(*  flac_*   the FLAC splice: the input chain, the bytes cut off the end   *)
(*           of the file, the file, and what CopyFlacHeader appended.      *)
(*  snd ..   one SndFileFilter (snd) used by two threads.  One reads and   *)
(*           closes: where it stands (hpc), its last call (call), what its *)
(*           last Read returned, whether the producer signalled the end.   *)
(*           The other calls Stat: where it stands (spc), what its last    *)
(*           Stat returned.  hlocal holds the locals of both: r of         *)
(*           AddMoreSoundData, frames_done and new_size of Stat.           *)
(*  obj ..   the threaded interface: the filter objects and whether each   *)
(*           is live or deleted, the inputs each was created from, the     *)
(*           map open_files_ and its mutex, fftw_mutex, and per thread     *)
(*           the position in its call, its handle, path, Read request and  *)
(*           the locals of the call it is in (tlocal).                     *)
(*           opens, closes and ran_on_deleted record history.              *)
(*  sp ..    one SoundProcessor (sp) between a decoder (stream, dec_pos)   *)
(*           and an encoder (written).  peak_abs (the largest absolute     *)
(*           output sample since the peak was last reset), handed, last_r, *)
(*           protocol and calls record history; aborted: an assert has     *)
(*           failed.                                                       *)
(*  rh ..    one SndFileFilter (rh) with two threads inside Stat and a     *)
(*           reader inside AddMoreSoundData: per Stat thread its position  *)
(*           (rpc), its locals frames_done (rdone) and new_size (rnew) and *)
(*           what it returned (rret);                                      *)
(*           the frames the reader has written but not yet counted         *)
(*           (rpend); the number of Stat calls begun (rstats).             *)
(***************************************************************************)
VARIABLES flac_chain, flac_cut, flac_in, flac_out, flac_ran
flacVars == <<flac_chain, flac_cut, flac_in, flac_out, flac_ran>>

VARIABLES snd, hpc, call, read_ret, stat_ret, eos, spc, hlocal
handlerVars == <<snd, hpc, call, read_ret, stat_ret, eos, spc, hlocal>>

VARIABLES obj, life, created, open_files_, open_files_mutex_, fftw_mutex,
          tpc, thandle, tpath, treq, teos, tfound, tback, tlocal,
          opens, closes, ran_on_deleted
threadVars == <<obj, life, created, open_files_, open_files_mutex_,
                fftw_mutex, tpc, thandle, tpath, treq, teos, tfound, tback,
                tlocal, opens, closes, ran_on_deleted>>

VARIABLES sp, peak_abs, stream, dec_pos, written, handed, last_r, protocol,
          aborted, calls
procVars == <<sp, peak_abs, stream, dec_pos, written, handed, last_r,
              protocol, aborted, calls>>

VARIABLES rh, rpc, rdone, rnew, rret, rpend, rstats
raceVars == <<rh, rpc, rdone, rnew, rret, rpend, rstats>>

vars == <<flacVars, handlerVars, threadVars, procVars, raceVars>>

(***************************************************************************)
(* Part 1.  FLAC metadata chain splice: SndFileFilter::CopyFlacHeader.     *)
(* A file is a sequence of bytes; file position p is element p + 1.        *)
(***************************************************************************)

\* Bounds of the FLAC inputs.
MaxBlocks == 2
MaxCut == 5

FLAC__METADATA_TYPE_STREAMINFO == 0
FLAC__METADATA_TYPE_PADDING == 1
FLAC__METADATA_TYPE_SEEKTABLE == 3

Min(a, b) == IF a < b THEN a ELSE b
Max(a, b) == IF a > b THEN a ELSE b

RECURSIVE Repeat(_, _)
Repeat(b, n) == IF n <= 0 THEN << >> ELSE <<b>> \o Repeat(b, n - 1)

\* pread(fd, buf, len, pos): the bytes actually read (short at end of file).
Pread(file, pos, len) ==
  IF pos >= Len(file) THEN << >>
  ELSE SubSeq(file, pos + 1, Min(pos + len, Len(file)))

\* CopyBytes: appends what pread delivers, stops at the first empty read.
CopyBytes(file, pos, len) == Pread(file, pos, len)

\* The loop body copying the SEEKTABLE like any other block.
FlacBlockOutputKeepingSeektable(file, pos, header) ==
  LET type == header[1] % 128
      byte_len == header[2] * 65536 + header[3] * 256 + header[4]
  IN  IF type = FLAC__METADATA_TYPE_STREAMINFO /\ byte_len = 34
        THEN header \o CopyBytes(file, pos, byte_len - 16) \o Repeat(0, 16)
      ELSE header \o CopyBytes(file, pos, byte_len)

\* One metadata block of the loop in CopyFlacHeader: what it appends.
FlacBlockOutput(file, pos, header) ==
  LET type == header[1] % 128
      byte_len == header[2] * 65536 + header[3] * 256 + header[4]
  IN  IF type = FLAC__METADATA_TYPE_STREAMINFO /\ byte_len = 34
        THEN header \o CopyBytes(file, pos, byte_len - 16) \o Repeat(0, 16)
      ELSE IF type = FLAC__METADATA_TYPE_SEEKTABLE
        THEN << >>
      ELSE header \o CopyBytes(file, pos, byte_len)

\* need_finish_padding after one block.
FlacNeedPadding(header) ==
  (header[1] % 128 = FLAC__METADATA_TYPE_SEEKTABLE) /\ (header[1] \div 128 = 1)

\* The while loop of CopyFlacHeader from position pos on; the result is the
\* pair <<bytes appended, need_finish_padding>>.
RECURSIVE FlacLoop(_, _, _, _)
FlacLoop(file, pos, out, need_finish_padding) ==
  LET header == Pread(file, pos, 4)
  IN  IF Len(header) # 4 THEN <<out, need_finish_padding>>
      ELSE LET is_last == header[1] \div 128 = 1
               byte_len == header[2] * 65536 + header[3] * 256 + header[4]
               out2 == out \o FlacBlockOutput(file, pos + 4, header)
               nfp == FlacNeedPadding(header)
           IN  IF is_last THEN <<out2, nfp>>
               ELSE FlacLoop(file, pos + 4 + byte_len, out2, nfp)

fLaC == <<102, 76, 97, 67>>

\* CopyFlacHeader: everything appended to the conversion buffer.
CopyFlacHeader(file) ==
  LET r == FlacLoop(file, 4, fLaC, FALSE)
  IN  IF r[2] THEN r[1] \o <<128 + FLAC__METADATA_TYPE_PADDING, 0, 0, 0>>
      ELSE r[1]

(***************************************************************************)
(* Part 2.  Arithmetic of the handler: C integer widths and float.         *)
(***************************************************************************)

TwoTo30 == 1024 * 1024 * 1024

RECURSIVE Pow2(_)
Pow2(n) == IF n <= 0 THEN 1 ELSE 2 * Pow2(n - 1)

RECURSIVE FloorLog2(_)
FloorLog2(n) == IF n <= 1 THEN 0 ELSE 1 + FloorLog2(n \div 2)

\* A 64-bit file offset (off_t) as hi * 2^30 + lo with lo < 2^30; sizes and
\* buffer lengths stay below 2^30 and are plain integers.
Off(hi, lo) == [hi |-> hi, lo |-> lo]
OffOfInt(n) == Off(0, n)
OffAdd(off, n) ==
  LET l == off.lo + n IN Off(off.hi + l \div TwoTo30, l % TwoTo30)
\* n < off, n <= off and n = off for an int n below 2^30
IntLessOff(n, off) == off.hi > 0 \/ n < off.lo
OffLeqInt(off, n) == off.hi = 0 /\ off.lo <= n
OffEqInt(off, n) == off.hi = 0 /\ off.lo = n

\* (int) of a 64-bit value: the low 32 bits, two's complement.
IntCast(off) ==
  CASE off.hi % 4 = 0 -> off.lo
    [] off.hi % 4 = 1 -> TwoTo30 + off.lo
    [] off.hi % 4 = 2 -> (off.lo - TwoTo30) - TwoTo30
    [] OTHER          -> off.lo - TwoTo30

\* round-to-nearest-even of a / b, given its quotient q and remainder r
RoundNearestEven(q, r, b) ==
  IF 2 * r > b \/ (2 * r = b /\ q % 2 = 1) THEN q + 1 ELSE q

\* n more binary digits of a quotient <<q, r>> by done
RECURSIVE LongDivide(_, _, _)
LongDivide(qr, done, n) ==
  IF n <= 0 THEN qr
  ELSE LET bit == IF 2 * qr[2] >= done THEN 1 ELSE 0
       IN  LongDivide(<<2 * qr[1] + bit, 2 * qr[2] - bit * done>>, done, n - 1)

\* const float estimated_end = 1.0 * total / done, for 1 <= done <= total
\* and total < 2^23: the float is mant * 2^(exp - 23).
FloatRatio(total, done) ==
  LET k == FloorLog2(total \div done)
      qr == LongDivide(<<total \div done, total % done>>, done, 23 - k)
  IN  [mant |-> RoundNearestEven(qr[1], qr[2], done), exp |-> k]

\* (off_t) (estimated_end * FileSize()): the product of two floats, rounded
\* to a float (24 significant bits, ties to even), then truncated.
\* size < 2^18, result below 2^31.  The exact product is
\* (hi * 4096 + lo) * 2^(exp - 23); s is the number of its low bits that the
\* float drops.
FloatTimesSizeTruncated(f, size) ==
  LET mh == f.mant \div 4096
      ml == f.mant % 4096
      hi == mh * size + (ml * size) \div 4096
      lo == (ml * size) % 4096
      b  == IF hi > 0 THEN 12 + FloorLog2(hi) ELSE FloorLog2(lo)
      s  == IF b > 23 THEN b - 23 ELSE 0
      q  == IF s <= 12 THEN hi * Pow2(12 - s) + lo \div Pow2(s)
                       ELSE hi \div Pow2(s - 12)
      r  == IF s <= 12 THEN lo % Pow2(s)
                       ELSE (hi % Pow2(s - 12)) * 4096 + lo
      rounded == RoundNearestEven(q, r, Pow2(s))
      t  == s + f.exp - 23
  IN  IF t >= 0 THEN rounded * Pow2(t) ELSE rounded \div Pow2(-t)

(***************************************************************************)
(* Part 3.  The handlers.  A handler is a record; every method is an       *)
(* operator from the handler before the call to the handler after it.      *)
(* ConversionBuffer is outside the sources: only its length (buf), the     *)
(* bytes appended directly (direct) and its two flags are kept.            *)
(***************************************************************************)

\* new_size += 16384
EstimatePad == 16384

\* ConversionBuffer::Append
BufAppend(h, bytes) ==
  [h EXCEPT !.buf = @ + Len(bytes), !.direct = @ \o bytes]

\* ConversionBuffer::SndfileWriteCallback: dropped while writes are disabled
\* (dropped counts the bytes that met that fate)
BufSndfileWrite(h, n) ==
  IF h.writes_enabled THEN [h EXCEPT !.buf = @ + n]
  ELSE [h EXCEPT !.dropped = @ + n]

\* ConversionBuffer::HeaderFinished: the audio payload starts at this size
BufHeaderFinished(h) ==
  [h EXCEPT !.header_finished = TRUE, !.header_end = h.buf]

\* PassThroughFilter(filedes, path); filedes_open: is the descriptor open
PassThroughFilter(filedes_open) ==
  [kind |-> "pass", filedes_open |-> filedes_open, snd_in_open |-> FALSE,
   snd_out_ |-> "null", total_frames_ |-> 0, input_frames_left_ |-> 0,
   dec_left |-> 0, st_size |-> 0, start_estimating_size_ |-> 0,
   error_ |-> FALSE, copy_flac_header_ |-> FALSE, file |-> << >>,
   buf |-> 0, direct |-> << >>, writes_enabled |-> FALSE,
   header_finished |-> FALSE, header_end |-> 0, dropped |-> 0,
   convproc |-> "null", fragm |-> 0]

\* SetOutputSoundfile that leaves encoder writes enabled while it copies the
\* FLAC header.
SetOutputSoundfileWritesOn(h, encoder_ok, enc_header) ==
  IF ~encoder_ok
    THEN [h EXCEPT !.snd_out_ = "null", !.error_ = TRUE]
    ELSE LET h1 == [h EXCEPT !.snd_out_ = "open"]
             h2 == IF h1.copy_flac_header_
                     THEN BufAppend(h1, CopyFlacHeader(h1.file))
                     ELSE [h1 EXCEPT !.writes_enabled = TRUE]
             h3 == BufSndfileWrite(h2, enc_header)
         IN  BufHeaderFinished([h3 EXCEPT !.writes_enabled = TRUE])

\* SndFileFilter::SetOutputSoundfile, called by the conversion buffer when it
\* opens its encoder; enc_header is what the encoder writes on the header flush.
SetOutputSoundfile(h, encoder_ok, enc_header) ==
  IF ~encoder_ok
    THEN [h EXCEPT !.snd_out_ = "null", !.error_ = TRUE]
    ELSE LET h1 == [h EXCEPT !.snd_out_ = "open"]
             h2 == IF h1.copy_flac_header_
                     THEN BufAppend([h1 EXCEPT !.writes_enabled = FALSE],
                                    CopyFlacHeader(h1.file))
                     ELSE [h1 EXCEPT !.writes_enabled = TRUE]
             h3 == BufSndfileWrite(h2, enc_header)
         IN  BufHeaderFinished([h3 EXCEPT !.writes_enabled = TRUE])

\* What a call of create_filter finds: does the decoder open the file
\* (decoder_ok), is the filter config readable (config_ok), does the encoder
\* open (encoder_ok), the size fstat reports (orig_size), in_info.frames
\* (frames), the frames the decoder will really deliver (dec_frames), is the
\* input FLAC and its bytes (is_flac, file), and the bytes the encoder writes
\* on the header flush (enc_header).
InputOf(d_ok, c_ok, e_ok, orig_size, frames, dec_frames, flac, file, hdr) ==
  [decoder_ok |-> d_ok, config_ok |-> c_ok, encoder_ok |-> e_ok,
   orig_size |-> orig_size, frames |-> frames, dec_frames |-> dec_frames,
   is_flac |-> flac, file |-> file, enc_header |-> hdr]

\* SndFileFilter::SndFileFilter on the input f
SndFileFilter(f) ==
  SetOutputSoundfile(
    [kind |-> "snd", filedes_open |-> TRUE, snd_in_open |-> TRUE,
     snd_out_ |-> "null", total_frames_ |-> f.frames,
     input_frames_left_ |-> f.frames, dec_left |-> f.dec_frames,
     st_size |-> f.orig_size,
     start_estimating_size_ |-> (2 * f.orig_size) \div 5,
     error_ |-> FALSE, copy_flac_header_ |-> f.is_flac, file |-> f.file,
     buf |-> 0, direct |-> << >>, writes_enabled |-> TRUE,
     header_finished |-> FALSE, header_end |-> 0, dropped |-> 0,
     convproc |-> "null", fragm |-> 0],
    f.encoder_ok, f.enc_header)

\* Stat: new_size from total_frames_, frames_done and FileSize()
StatNewSize(total_frames, frames_done, size) ==
  FloatTimesSizeTruncated(FloatRatio(total_frames, frames_done), size)
    + EstimatePad

\* Stat, first step.  SndFileFilter: FileSize() > start_estimating_size_;
\* PassThroughFilter: fstat(filedes_, st), nothing more to do.
StatFirstStep(h) ==
  IF h.kind # "snd" THEN "return"
  ELSE IF h.buf > h.start_estimating_size_ THEN "stat_frames"
  ELSE "stat_copy"

\* Stat storing every estimate.
StatGoesAnywhere(new_size, st_size) == TRUE

\* Stat: if (new_size > file_stat_.st_size), "only go forward in size"
StatGoesForward(new_size, st_size) == new_size > st_size

\* The locals of a thread outside AddMoreSoundData and Stat.
NoLocal == [r |-> 0, frames_done |-> 0, new_size |-> -1]

\* Read without the error check.
ReadDispatchIgnoringError(h, size, offset) ==
  IF IntLessOff(h.buf, offset)
     /\ IntCast(OffAdd(offset, size)) = h.st_size THEN "skip"
  ELSE "delegate"

\* SndFileFilter::Read, up to the call of the conversion buffer.
ReadDispatch(h, size, offset) ==
  IF h.error_ THEN "error"
  ELSE IF IntLessOff(h.buf, offset)
          /\ IntCast(OffAdd(offset, size)) = h.st_size THEN "skip"
  ELSE "delegate"

\* SndFileFilter::Close
SndClose(h) ==
  [h EXCEPT !.writes_enabled = FALSE, !.snd_in_open = FALSE,
            !.snd_out_ = IF @ = "open" THEN "closed" ELSE @,
            !.filedes_open = FALSE]

\* AddMoreSoundData, first call: zita_.convproc = new Convproc()
NewConvproc(h) == [h EXCEPT !.convproc = "ready"]

\* AddMoreSoundData, first call: new Convproc, config(), start_process
ConfigureConvolver(h, fragm) ==
  [h EXCEPT !.convproc = "ready", !.fragm = fragm]

\* AddMoreSoundData from sf_readf_float to sf_writef_float: the frames are
\* read, convolved and written; the encoder hands enc_bytes to the write
\* callback.
ProduceWrite(h, enc_bytes) == BufSndfileWrite(h, enc_bytes)

\* AddMoreSoundData counting a whole fragment whatever the decoder returned.
ProduceCountFragm(h, r) ==
  [h EXCEPT !.input_frames_left_ = @ - h.fragm, !.dec_left = @ - r]

\* AddMoreSoundData: input_frames_left_ -= r (the decoder has moved on by r)
ProduceCount(h, r) ==
  [h EXCEPT !.input_frames_left_ = @ - r, !.dec_left = @ - r]

\* ConversionBuffer::Read once the producer has been driven: bytes returned.
BufReadResult(h, size, offset) ==
  IF OffLeqInt(offset, h.buf) THEN Min(size, h.buf - offset.lo) ELSE 0

\* ConversionBuffer::Read: does [offset, offset + size) lie within the buffer
BufHasBytes(h, size, offset) == OffLeqInt(OffAdd(offset, size), h.buf)

\* sf_close(snd) on a decoder opened by sf_open_fd(fd, mode, info,
\* close_desc): the descriptor is closed along with it iff close_desc.
SfCloseDescriptor(close_desc) == ~close_desc

\* Create without the access() check on the config file.
SndFileFilterCreateAnyConfig(f) ==
  IF ~f.decoder_ok THEN [kind |-> "NULL", filedes_open |-> TRUE]
  ELSE SndFileFilter(f)

\* SndFileFilter::Create: the handler, or NULL with the descriptor's state.
SndFileFilterCreate(f) ==
  IF ~f.decoder_ok THEN [kind |-> "NULL", filedes_open |-> TRUE]
  ELSE IF ~f.config_ok
    THEN [kind |-> "NULL", filedes_open |-> SfCloseDescriptor(FALSE)]
  ELSE SndFileFilter(f)

\* CreateFilterFromFileType
CreateFilterFromFileType(f) ==
  LET filter == SndFileFilterCreate(f)
  IN  IF filter.kind # "NULL" THEN filter
      ELSE PassThroughFilter(filter.filedes_open)

(***************************************************************************)
(* Part 4.  Inputs: FLAC files as byte sequences.                          *)
(***************************************************************************)

BlockTypes == {0, 1, 3, 4}
BlockLens == {0, 1, 34}
Blocks == [last : BOOLEAN, type : BlockTypes, len : BlockLens]

\* header: last-block flag + 7-bit type, 24-bit big-endian length; payload
BlockBytes(b) ==
  <<(IF b.last THEN 128 ELSE 0) + b.type, 0, 0, b.len>> \o Repeat(170, b.len)

RECURSIVE ChainBytes(_)
ChainBytes(chain) ==
  IF chain = << >> THEN << >>
  ELSE BlockBytes(Head(chain)) \o ChainBytes(Tail(chain))

Chains == UNION {[1..n -> Blocks] : n \in 0..MaxBlocks}

\* The marker, the chain and the start of the first audio frame, with the
\* last cut bytes missing.
FlacFile(chain, cut) ==
  LET all == fLaC \o ChainBytes(chain) \o <<255, 248>>
  IN  SubSeq(all, 1, Max(4, Len(all) - cut))

FlacInit ==
  /\ flac_chain \in Chains
  /\ flac_cut \in 0..MaxCut
  /\ flac_in = FlacFile(flac_chain, flac_cut)
  /\ flac_out = << >>
  /\ flac_ran = FALSE

FlacIdle ==
  /\ flac_chain = << >>
  /\ flac_cut = 0
  /\ flac_in = << >>
  /\ flac_out = << >>
  /\ flac_ran = FALSE

\* CopyFlacHeader(out_buffer) on an empty conversion buffer
RunCopyFlacHeader ==
  /\ ~flac_ran
  /\ flac_out' = CopyFlacHeader(flac_in)
  /\ flac_ran' = TRUE
  /\ UNCHANGED <<flac_chain, flac_cut, flac_in>>
  /\ UNCHANGED <<handlerVars, threadVars, procVars, raceVars>>

(***************************************************************************)
(* Part 5.  One convolving handler and two threads.  One thread reads      *)
(* (Read drives the producer, AddMoreSoundData) and closes; the other      *)
(* calls Stat.  Neither Read, AddMoreSoundData, Stat nor fill_fstat_file   *)
(* takes a lock, so every access of the one thread to the buffer size, the *)
(* frames left and the reported size is a step the other can come between. *)
(***************************************************************************)

\* Bounds of the handler's inputs.
MaxFrames == 2
MaxFragm == 2

OrigSizes == {0, 1000, 100000}
HeaderBytes == {0, 44, 1500}
EncBytes == {0, 30000}
ReadSizes == {1, 4096}
SampleChains ==
  { <<[last |-> FALSE, type |-> 0, len |-> 34],
      [last |-> TRUE, type |-> 3, len |-> 1]>>,
    <<[last |-> TRUE, type |-> 0, len |-> 34]>> }

NoCall == [op |-> "none", size |-> 0, off |-> OffOfInt(0), kind |-> "none"]

HandlerInit ==
  /\ \E orig_size \in OrigSizes, frames \in 0..MaxFrames,
        encoder_ok \in BOOLEAN, enc_header \in HeaderBytes :
       \E dec_frames \in 0..frames :
         \/ snd = SndFileFilter(InputOf(TRUE, TRUE, encoder_ok, orig_size,
                                        frames, dec_frames, FALSE, << >>,
                                        enc_header))
         \/ \E chain \in SampleChains :
              /\ orig_size >= Len(FlacFile(chain, 0))
              /\ snd = SndFileFilter(InputOf(TRUE, TRUE, encoder_ok, orig_size,
                                             frames, dec_frames, TRUE,
                                             FlacFile(chain, 0), enc_header))
  /\ hpc = "idle"
  /\ call = NoCall
  /\ read_ret = 0
  /\ stat_ret = -1
  /\ eos = FALSE
  /\ spc = "none"
  /\ hlocal = NoLocal

HandlerIdle ==
  /\ snd = PassThroughFilter(FALSE)
  /\ hpc = "closed"
  /\ call = NoCall
  /\ read_ret = 0
  /\ stat_ret = -1
  /\ eos = FALSE
  /\ spc = "none"
  /\ hlocal = NoLocal

\* The offsets a client reads at: the start, the end of what is produced,
\* just past it, the tail of the reported size, and the same 2^32 further.
ReadOffsets(h, size) ==
  {OffOfInt(0), OffOfInt(h.buf), OffOfInt(h.buf + 1)}
  \cup (IF h.st_size >= size
          THEN {OffOfInt(h.st_size - size), Off(4, h.st_size - size)}
          ELSE {})

\* SndFileFilter::Read(buf, size, offset), entry.  FileSize() changes only
\* in this thread, so the two reads of the test are one step, that of
\* file_stat_.st_size.
HRead ==
  /\ hpc = "idle"
  /\ \E size \in ReadSizes : \E offset \in ReadOffsets(snd, size) :
       LET kind == ReadDispatch(snd, size, offset)
       IN  /\ call' = [op |-> "Read", size |-> size, off |-> offset,
                       kind |-> kind]
           /\ hpc' = IF kind = "delegate" THEN "pull" ELSE "idle"
           /\ read_ret' = CASE kind = "error" -> -1
                            [] kind = "skip" -> size
                            [] OTHER -> read_ret
  /\ eos' = FALSE
  /\ UNCHANGED <<snd, stat_ret, spc, hlocal>>
  /\ UNCHANGED <<flacVars, threadVars, procVars, raceVars>>

\* AddMoreSoundData called by the conversion buffer's Read, up to the return
\* of sf_writef_float: false at once if no frame is left; else the convolver
\* is made on the first call, r frames are read, convolved and written.
HAddMore ==
  /\ hpc = "pull"
  /\ ~eos
  /\ ~BufHasBytes(snd, call.size, call.off)
  /\ IF snd.input_frames_left_ = 0
       THEN /\ eos' = TRUE
            /\ UNCHANGED <<snd, hpc, hlocal>>
       ELSE \E fragm \in 1..MaxFragm :
              LET h1 == IF snd.convproc = "null"
                          THEN ConfigureConvolver(snd, fragm) ELSE snd
              IN  \E r \in 0..Min(h1.fragm, h1.dec_left) :
                    \E enc_bytes \in (IF r = 0 THEN {0} ELSE EncBytes) :
                      /\ snd' = ProduceWrite(h1, enc_bytes)
                      /\ hlocal' = [hlocal EXCEPT !.r = r]
                      /\ hpc' = "count"
                      /\ UNCHANGED eos
  /\ UNCHANGED <<call, read_ret, stat_ret, spc>>
  /\ UNCHANGED <<flacVars, threadVars, procVars, raceVars>>

\* AddMoreSoundData: input_frames_left_ -= r; return input_frames_left_
HAddMoreCount ==
  /\ hpc = "count"
  /\ snd' = ProduceCount(snd, hlocal.r)
  /\ eos' = (snd'.input_frames_left_ = 0)
  /\ hlocal' = [hlocal EXCEPT !.r = 0]
  /\ hpc' = "pull"
  /\ UNCHANGED <<call, read_ret, stat_ret, spc>>
  /\ UNCHANGED <<flacVars, threadVars, procVars, raceVars>>

\* ConversionBuffer::Read returns
HReadReturn ==
  /\ hpc = "pull"
  /\ eos \/ BufHasBytes(snd, call.size, call.off)
  /\ read_ret' = BufReadResult(snd, call.size, call.off)
  /\ hpc' = "idle"
  /\ eos' = FALSE
  /\ UNCHANGED <<snd, call, stat_ret, spc, hlocal>>
  /\ UNCHANGED <<flacVars, threadVars, procVars, raceVars>>

\* SndFileFilter::Stat(st) called by the other thread, first step:
\* if (output_buffer_->FileSize() > start_estimating_size_)
HStat ==
  /\ hpc # "closed"
  /\ spc = "none"
  /\ spc' = StatFirstStep(snd)
  /\ UNCHANGED <<snd, hpc, call, read_ret, stat_ret, eos, hlocal>>
  /\ UNCHANGED <<flacVars, threadVars, procVars, raceVars>>

\* Stat: frames_done = total_frames_ - input_frames_left_; if (frames_done > 0)
HStatFrames ==
  /\ spc = "stat_frames"
  /\ LET frames_done == snd.total_frames_ - snd.input_frames_left_
     IN  /\ hlocal' = [hlocal EXCEPT !.frames_done = frames_done]
         /\ spc' = IF frames_done > 0 THEN "stat_estimate" ELSE "stat_copy"
  /\ UNCHANGED <<snd, hpc, call, read_ret, stat_ret, eos>>
  /\ UNCHANGED <<flacVars, threadVars, procVars, raceVars>>

\* Stat: new_size = estimated_end * output_buffer_->FileSize() + 16384
HStatEstimate ==
  /\ spc = "stat_estimate"
  /\ hlocal' = [hlocal EXCEPT !.new_size =
                  StatNewSize(snd.total_frames_, hlocal.frames_done, snd.buf)]
  /\ spc' = "stat_compare"
  /\ UNCHANGED <<snd, hpc, call, read_ret, stat_ret, eos>>
  /\ UNCHANGED <<flacVars, threadVars, procVars, raceVars>>

\* Stat: if (new_size > file_stat_.st_size)
HStatCompare ==
  /\ spc = "stat_compare"
  /\ spc' = IF StatGoesForward(hlocal.new_size, snd.st_size)
              THEN "stat_store" ELSE "stat_copy"
  /\ UNCHANGED <<snd, hpc, call, read_ret, stat_ret, eos, hlocal>>
  /\ UNCHANGED <<flacVars, threadVars, procVars, raceVars>>

\* Stat: file_stat_.st_size = new_size
HStatStore ==
  /\ spc = "stat_store"
  /\ snd' = [snd EXCEPT !.st_size = hlocal.new_size]
  /\ spc' = "stat_copy"
  /\ UNCHANGED <<hpc, call, read_ret, stat_ret, eos, hlocal>>
  /\ UNCHANGED <<flacVars, threadVars, procVars, raceVars>>

\* Stat: *st = file_stat_; return 0
HStatCopy ==
  /\ spc = "stat_copy"
  /\ stat_ret' = snd.st_size
  /\ spc' = "none"
  /\ hlocal' = [hlocal EXCEPT !.frames_done = 0, !.new_size = -1]
  /\ UNCHANGED <<snd, hpc, call, read_ret, eos>>
  /\ UNCHANGED <<flacVars, threadVars, procVars, raceVars>>

\* SndFileFilter::Close()
HClose ==
  /\ hpc = "idle"
  /\ snd' = SndClose(snd)
  /\ hpc' = "closed"
  /\ call' = [op |-> "Close", size |-> 0, off |-> OffOfInt(0),
              kind |-> "none"]
  /\ UNCHANGED <<read_ret, stat_ret, eos, spc, hlocal>>
  /\ UNCHANGED <<flacVars, threadVars, procVars, raceVars>>

(***************************************************************************)
(* Part 6.  The C interface (create_filter, read_from_filter,              *)
(* fill_stat_by_filename, fill_fstat_file, close_filter) called by several *)
(* threads, the open-file map with its mutex, and the convolver            *)
(* configuration step.                                                     *)
(***************************************************************************)

\* Bounds of the threaded model.
NumThreads == 2
NumPaths == 1
MaxOpens == 3

Threads == 1..NumThreads
Paths == 1..NumPaths
Ids == 1..MaxOpens

ThreadOrigSizes == {1000}
ThreadFrames == {1}
ThreadHeaderBytes == {44}
ThreadEncBytes == {500}
ThreadReadSizes == {600}
ThreadFragms == {1}

\* The offsets the threads read at: the start, and the tail of the reported
\* size.
ThreadReadOffsets(h, size) ==
  {OffOfInt(0)}
  \cup (IF h.st_size >= size THEN {OffOfInt(h.st_size - size)} ELSE {})

NoReq == [size |-> 0, off |-> OffOfInt(0)]

NoInputs == [decoder_ok |-> FALSE, config_ok |-> FALSE]

ThreadInit ==
  /\ obj = [i \in Ids |-> PassThroughFilter(FALSE)]
  /\ life = [i \in Ids |-> "unused"]
  /\ created = [i \in Ids |-> NoInputs]
  /\ open_files_ = [p \in Paths |-> 0]
  /\ open_files_mutex_ = 0
  /\ fftw_mutex = 0
  /\ tpc = [t \in Threads |-> "idle"]
  /\ thandle = [t \in Threads |-> 0]
  /\ tpath = [t \in Threads |-> 1]
  /\ treq = [t \in Threads |-> NoReq]
  /\ teos = [t \in Threads |-> FALSE]
  /\ tfound = [t \in Threads |-> 0]
  /\ tback = [t \in Threads |-> "idle"]
  /\ tlocal = [t \in Threads |-> NoLocal]
  /\ opens = [p \in Paths |-> 0]
  /\ closes = [p \in Paths |-> 0]
  /\ ran_on_deleted = FALSE

\* new: the next object never handed out before
FreeIds == {i \in Ids : life[i] = "unused"}
NewId == CHOOSE i \in FreeIds : \A j \in FreeIds : i <= j

\* a method runs on object i: does it run on a deleted object
RunsOn(i) == ran_on_deleted' = (ran_on_deleted \/ life[i] # "live")

\* create_filter, up to the lock: CreateFilterFromFileType(filedes, path)
TCreate(t) ==
  /\ tpc[t] = "idle"
  /\ FreeIds # {}
  /\ \E p \in Paths, decoder_ok \in BOOLEAN, config_ok \in BOOLEAN,
        encoder_ok \in BOOLEAN, orig_size \in ThreadOrigSizes,
        frames \in ThreadFrames, enc_header \in ThreadHeaderBytes :
       /\ obj' = [obj EXCEPT ![NewId] =
            CreateFilterFromFileType(
              InputOf(decoder_ok, config_ok, encoder_ok, orig_size, frames,
                      frames, FALSE, << >>, enc_header))]
       /\ created' = [created EXCEPT ![NewId] =
            [decoder_ok |-> decoder_ok, config_ok |-> config_ok]]
       /\ tpath' = [tpath EXCEPT ![t] = p]
  /\ life' = [life EXCEPT ![NewId] = "live"]
  /\ thandle' = [thandle EXCEPT ![t] = NewId]
  /\ tpc' = [tpc EXCEPT ![t] = "insert"]
  /\ UNCHANGED <<open_files_, open_files_mutex_, fftw_mutex, treq, teos,
                 tfound, tback, opens, closes, ran_on_deleted>>
  /\ UNCHANGED tlocal
  /\ UNCHANGED <<flacVars, handlerVars, procVars, raceVars>>

\* open_files_[fs_path] = filter, as stored by create_filter
MapInsert(map, p, id) == [map EXCEPT ![p] = id]

\* create_filter: lock; open_files_[fs_path] = filter; unlock; return filter
TInsert(t) ==
  /\ tpc[t] = "insert"
  /\ open_files_mutex_ = 0
  /\ open_files_' = MapInsert(open_files_, tpath[t], thandle[t])
  /\ opens' = [opens EXCEPT ![tpath[t]] = @ + 1]
  /\ tpc' = [tpc EXCEPT ![t] = "open"]
  /\ UNCHANGED <<obj, life, created, open_files_mutex_, fftw_mutex, thandle,
                 tpath, treq, teos, tfound, tback, closes, ran_on_deleted>>
  /\ UNCHANGED tlocal
  /\ UNCHANGED <<flacVars, handlerVars, procVars, raceVars>>

\* read_from_filter: FileFilter::Read(buf, size, offset)
TRead(t) ==
  /\ tpc[t] = "open"
  /\ LET h == obj[thandle[t]]
     IN  \E size \in ThreadReadSizes :
           \E offset \in ThreadReadOffsets(h, size) :
             IF h.kind = "snd" /\ ReadDispatch(h, size, offset) = "delegate"
               THEN /\ treq' = [treq EXCEPT ![t] =
                                 [size |-> size, off |-> offset]]
                    /\ tpc' = [tpc EXCEPT ![t] = "pull"]
               ELSE UNCHANGED <<treq, tpc>>
  /\ teos' = [teos EXCEPT ![t] = FALSE]
  /\ RunsOn(thandle[t])
  /\ UNCHANGED <<obj, life, created, open_files_, open_files_mutex_,
                 fftw_mutex, thandle, tpath, tfound, tback, opens, closes>>
  /\ UNCHANGED tlocal
  /\ UNCHANGED <<flacVars, handlerVars, procVars, raceVars>>

\* ConversionBuffer::Read: AddMoreSoundData finds no frames left
TPullExhausted(t) ==
  /\ tpc[t] = "pull"
  /\ ~teos[t]
  /\ ~BufHasBytes(obj[thandle[t]], treq[t].size, treq[t].off)
  /\ obj[thandle[t]].input_frames_left_ = 0
  /\ teos' = [teos EXCEPT ![t] = TRUE]
  /\ RunsOn(thandle[t])
  /\ UNCHANGED <<obj, life, created, open_files_, open_files_mutex_,
                 fftw_mutex, tpc, thandle, tpath, treq, tfound, tback,
                 opens, closes>>
  /\ UNCHANGED tlocal
  /\ UNCHANGED <<flacVars, handlerVars, procVars, raceVars>>

\* AddMoreSoundData, first call: zita_.convproc = new Convproc(), then
\* enters config(&zita_, config_path_)
TPullConfig(t) ==
  /\ tpc[t] = "pull"
  /\ ~teos[t]
  /\ ~BufHasBytes(obj[thandle[t]], treq[t].size, treq[t].off)
  /\ obj[thandle[t]].input_frames_left_ # 0
  /\ obj[thandle[t]].convproc = "null"
  /\ obj' = [obj EXCEPT ![thandle[t]] = NewConvproc(@)]
  /\ tpc' = [tpc EXCEPT ![t] = "config"]
  /\ RunsOn(thandle[t])
  /\ UNCHANGED <<life, created, open_files_, open_files_mutex_,
                 fftw_mutex, thandle, tpath, treq, teos, tfound, tback,
                 opens, closes>>
  /\ UNCHANGED tlocal
  /\ UNCHANGED <<flacVars, handlerVars, procVars, raceVars>>

\* config() returns; raw_sample_buffer_ allocated, start_process
TConfigDone(t) ==
  /\ tpc[t] = "config"
  /\ \E fragm \in ThreadFragms :
       obj' = [obj EXCEPT ![thandle[t]] = ConfigureConvolver(@, fragm)]
  /\ tpc' = [tpc EXCEPT ![t] = "produce"]
  /\ UNCHANGED <<life, created, open_files_, open_files_mutex_, fftw_mutex,
                 thandle, tpath, treq, teos, tfound, tback, opens, closes,
                 ran_on_deleted>>
  /\ UNCHANGED tlocal
  /\ UNCHANGED <<flacVars, handlerVars, procVars, raceVars>>

\* AddMoreSoundData: read, convolve, write one fragment (sf_writef_float)
TProduce(t) ==
  /\ \/ tpc[t] = "produce"
     \/ /\ tpc[t] = "pull"
        /\ ~teos[t]
        /\ ~BufHasBytes(obj[thandle[t]], treq[t].size, treq[t].off)
        /\ obj[thandle[t]].input_frames_left_ # 0
        /\ obj[thandle[t]].convproc # "null"
  /\ LET h == obj[thandle[t]]
     IN  \E r \in 0..Min(h.fragm, h.dec_left) :
           \E enc_bytes \in (IF r = 0 THEN {0} ELSE ThreadEncBytes) :
             /\ obj' = [obj EXCEPT ![thandle[t]] = ProduceWrite(h, enc_bytes)]
             /\ tlocal' = [tlocal EXCEPT ![t].r = r]
  /\ tpc' = [tpc EXCEPT ![t] = "count"]
  /\ RunsOn(thandle[t])
  /\ UNCHANGED <<life, created, open_files_, open_files_mutex_, fftw_mutex,
                 thandle, tpath, treq, teos, tfound, tback, opens, closes>>
  /\ UNCHANGED <<flacVars, handlerVars, procVars, raceVars>>

\* AddMoreSoundData: input_frames_left_ -= r; return input_frames_left_
TProduceCount(t) ==
  /\ tpc[t] = "count"
  /\ obj' = [obj EXCEPT ![thandle[t]] = ProduceCount(@, tlocal[t].r)]
  /\ teos' = [teos EXCEPT ![t] = (obj'[thandle[t]].input_frames_left_ = 0)]
  /\ tlocal' = [tlocal EXCEPT ![t] = NoLocal]
  /\ tpc' = [tpc EXCEPT ![t] = "pull"]
  /\ RunsOn(thandle[t])
  /\ UNCHANGED <<life, created, open_files_, open_files_mutex_, fftw_mutex,
                 thandle, tpath, treq, tfound, tback, opens, closes>>
  /\ UNCHANGED <<flacVars, handlerVars, procVars, raceVars>>

\* ConversionBuffer::Read returns to read_from_filter
TPullReturn(t) ==
  /\ tpc[t] = "pull"
  /\ teos[t] \/ BufHasBytes(obj[thandle[t]], treq[t].size, treq[t].off)
  /\ tpc' = [tpc EXCEPT ![t] = "open"]
  /\ teos' = [teos EXCEPT ![t] = FALSE]
  /\ treq' = [treq EXCEPT ![t] = NoReq]
  /\ RunsOn(thandle[t])
  /\ UNCHANGED <<obj, life, created, open_files_, open_files_mutex_,
                 fftw_mutex, thandle, tpath, tfound, tback, opens, closes>>
  /\ UNCHANGED tlocal
  /\ UNCHANGED <<flacVars, handlerVars, procVars, raceVars>>

\* The handler a thread's Stat runs on: the one found in the map by
\* fill_stat_by_filename, which holds the map's mutex, or its own handle.
StatTarget(t) == IF open_files_mutex_ = t THEN tfound[t] ELSE thandle[t]

\* fill_fstat_file: Stat(st) on the handle, first step
TFstat(t) ==
  /\ tpc[t] = "open"
  /\ LET next == StatFirstStep(obj[thandle[t]])
     IN  IF next = "return"
           THEN UNCHANGED <<tpc, tback>>
           ELSE /\ tpc' = [tpc EXCEPT ![t] = next]
                /\ tback' = [tback EXCEPT ![t] = "open"]
  /\ RunsOn(thandle[t])
  /\ UNCHANGED <<obj, life, created, open_files_, open_files_mutex_,
                 fftw_mutex, thandle, tpath, treq, teos, tfound, tlocal,
                 opens, closes>>
  /\ UNCHANGED <<flacVars, handlerVars, procVars, raceVars>>

\* Stat: frames_done = total_frames_ - input_frames_left_; if (frames_done > 0)
TStatFrames(t) ==
  /\ tpc[t] = "stat_frames"
  /\ LET h == obj[StatTarget(t)]
         frames_done == h.total_frames_ - h.input_frames_left_
     IN  /\ tlocal' = [tlocal EXCEPT ![t].frames_done = frames_done]
         /\ tpc' = [tpc EXCEPT ![t] = IF frames_done > 0 THEN "stat_estimate"
                                                         ELSE "stat_copy"]
  /\ RunsOn(StatTarget(t))
  /\ UNCHANGED <<obj, life, created, open_files_, open_files_mutex_,
                 fftw_mutex, thandle, tpath, treq, teos, tfound, tback,
                 opens, closes>>
  /\ UNCHANGED <<flacVars, handlerVars, procVars, raceVars>>

\* Stat: new_size = estimated_end * output_buffer_->FileSize() + 16384
TStatEstimate(t) ==
  /\ tpc[t] = "stat_estimate"
  /\ LET h == obj[StatTarget(t)]
     IN  tlocal' = [tlocal EXCEPT ![t].new_size =
                      StatNewSize(h.total_frames_, tlocal[t].frames_done,
                                  h.buf)]
  /\ tpc' = [tpc EXCEPT ![t] = "stat_compare"]
  /\ RunsOn(StatTarget(t))
  /\ UNCHANGED <<obj, life, created, open_files_, open_files_mutex_,
                 fftw_mutex, thandle, tpath, treq, teos, tfound, tback,
                 opens, closes>>
  /\ UNCHANGED <<flacVars, handlerVars, procVars, raceVars>>

\* Stat: if (new_size > file_stat_.st_size)
TStatCompare(t) ==
  /\ tpc[t] = "stat_compare"
  /\ tpc' = [tpc EXCEPT ![t] =
               IF StatGoesForward(tlocal[t].new_size,
                                  obj[StatTarget(t)].st_size)
                 THEN "stat_store" ELSE "stat_copy"]
  /\ RunsOn(StatTarget(t))
  /\ UNCHANGED <<obj, life, created, open_files_, open_files_mutex_,
                 fftw_mutex, thandle, tpath, treq, teos, tfound, tback,
                 tlocal, opens, closes>>
  /\ UNCHANGED <<flacVars, handlerVars, procVars, raceVars>>

\* Stat: file_stat_.st_size = new_size
TStatStore(t) ==
  /\ tpc[t] = "stat_store"
  /\ obj' = [obj EXCEPT ![StatTarget(t)].st_size = tlocal[t].new_size]
  /\ tpc' = [tpc EXCEPT ![t] = "stat_copy"]
  /\ RunsOn(StatTarget(t))
  /\ UNCHANGED <<life, created, open_files_, open_files_mutex_, fftw_mutex,
                 thandle, tpath, treq, teos, tfound, tback, tlocal, opens,
                 closes>>
  /\ UNCHANGED <<flacVars, handlerVars, procVars, raceVars>>

\* Stat: *st = file_stat_; return 0.  fill_stat_by_filename then unlocks.
TStatCopy(t) ==
  /\ tpc[t] = "stat_copy"
  /\ RunsOn(StatTarget(t))
  /\ open_files_mutex_' = IF open_files_mutex_ = t THEN 0
                                                   ELSE open_files_mutex_
  /\ tpc' = [tpc EXCEPT ![t] = tback[t]]
  /\ tfound' = [tfound EXCEPT ![t] = 0]
  /\ tback' = [tback EXCEPT ![t] = "idle"]
  /\ tlocal' = [tlocal EXCEPT ![t] = NoLocal]
  /\ UNCHANGED <<obj, life, created, open_files_, fftw_mutex, thandle, tpath,
                 treq, teos, opens, closes>>
  /\ UNCHANGED <<flacVars, handlerVars, procVars, raceVars>>

\* FileFilter::Close of either variant
FilterClose(h) ==
  IF h.kind = "snd" THEN SndClose(h) ELSE [h EXCEPT !.filedes_open = FALSE]

\* close_filter that leaves the map alone.
MapEraseNothing(map, p, id) == map

\* close_filter: the entry is erased only if it still maps to this filter
MapErase(map, p, id) ==
  IF map[p] # 0 /\ map[p] = id THEN [map EXCEPT ![p] = 0] ELSE map

\* fill_stat_by_filename: lock, find; returns -1 at once if nothing is found
TNameLookup(t) ==
  /\ tpc[t] \in {"idle", "open"}
  /\ open_files_mutex_ = 0
  /\ \E p \in Paths :
       IF open_files_[p] = 0
         THEN UNCHANGED <<open_files_mutex_, tpc, tfound, tback>>
         ELSE /\ open_files_mutex_' = t
              /\ tfound' = [tfound EXCEPT ![t] = open_files_[p]]
              /\ tback' = [tback EXCEPT ![t] = tpc[t]]
              /\ tpc' = [tpc EXCEPT ![t] = "name_stat"]
  /\ UNCHANGED <<obj, life, created, open_files_, fftw_mutex, thandle, tpath,
                 treq, teos, opens, closes, ran_on_deleted>>
  /\ UNCHANGED tlocal
  /\ UNCHANGED <<flacVars, handlerVars, procVars, raceVars>>

\* fill_stat_by_filename: found->second->Stat(st), first step; the
\* PassThroughFilter's Stat returns at once and the lock is released
TNameStat(t) ==
  /\ tpc[t] = "name_stat"
  /\ LET next == StatFirstStep(obj[tfound[t]])
     IN  IF next = "return"
           THEN /\ open_files_mutex_' = 0
                /\ tpc' = [tpc EXCEPT ![t] = tback[t]]
                /\ tfound' = [tfound EXCEPT ![t] = 0]
                /\ tback' = [tback EXCEPT ![t] = "idle"]
           ELSE /\ tpc' = [tpc EXCEPT ![t] = next]
                /\ UNCHANGED <<open_files_mutex_, tfound, tback>>
  /\ RunsOn(tfound[t])
  /\ UNCHANGED <<obj, life, created, open_files_, fftw_mutex, thandle, tpath,
                 treq, teos, tlocal, opens, closes>>
  /\ UNCHANGED <<flacVars, handlerVars, procVars, raceVars>>

\* close_filter: file_filter->Close()
TCloseBegin(t) ==
  /\ tpc[t] = "open"
  /\ obj' = [obj EXCEPT ![thandle[t]] = FilterClose(@)]
  /\ tpc' = [tpc EXCEPT ![t] = "close_erase"]
  /\ UNCHANGED <<life, created, open_files_, open_files_mutex_, fftw_mutex,
                 thandle, tpath, treq, teos, tfound, tback, opens, closes,
                 ran_on_deleted>>
  /\ UNCHANGED tlocal
  /\ UNCHANGED <<flacVars, handlerVars, procVars, raceVars>>

\* close_filter: lock; find; erase; unlock
TCloseErase(t) ==
  /\ tpc[t] = "close_erase"
  /\ open_files_mutex_ = 0
  /\ open_files_' = MapErase(open_files_, tpath[t], thandle[t])
  /\ closes' = [closes EXCEPT ![tpath[t]] = @ + 1]
  /\ tpc' = [tpc EXCEPT ![t] = "close_delete"]
  /\ UNCHANGED <<obj, life, created, open_files_mutex_, fftw_mutex, thandle,
                 tpath, treq, teos, tfound, tback, opens, ran_on_deleted>>
  /\ UNCHANGED tlocal
  /\ UNCHANGED <<flacVars, handlerVars, procVars, raceVars>>

\* close_filter: delete file_filter; return
TCloseDelete(t) ==
  /\ tpc[t] = "close_delete"
  /\ life' = [life EXCEPT ![thandle[t]] = "deleted"]
  /\ thandle' = [thandle EXCEPT ![t] = 0]
  /\ tpc' = [tpc EXCEPT ![t] = "idle"]
  /\ UNCHANGED <<obj, created, open_files_, open_files_mutex_, fftw_mutex,
                 tpath, treq, teos, tfound, tback, opens, closes,
                 ran_on_deleted>>
  /\ UNCHANGED tlocal
  /\ UNCHANGED <<flacVars, handlerVars, procVars, raceVars>>

\* SoundProcessor::Create: MutexLock l(&fftw_mutex); enters config()
TProcessorCreate(t) ==
  /\ tpc[t] = "idle"
  /\ fftw_mutex = 0
  /\ fftw_mutex' = t
  /\ tpc' = [tpc EXCEPT ![t] = "sp_config"]
  /\ UNCHANGED <<obj, life, created, open_files_, open_files_mutex_, thandle,
                 tpath, treq, teos, tfound, tback, opens, closes,
                 ran_on_deleted>>
  /\ UNCHANGED tlocal
  /\ UNCHANGED <<flacVars, handlerVars, procVars, raceVars>>

\* SoundProcessor::Create: config() returns, the lock is released
TProcessorCreated(t) ==
  /\ tpc[t] = "sp_config"
  /\ fftw_mutex' = 0
  /\ tpc' = [tpc EXCEPT ![t] = "idle"]
  /\ UNCHANGED <<obj, life, created, open_files_, open_files_mutex_, thandle,
                 tpath, treq, teos, tfound, tback, opens, closes,
                 ran_on_deleted>>
  /\ UNCHANGED tlocal
  /\ UNCHANGED <<flacVars, handlerVars, procVars, raceVars>>

(***************************************************************************)
(* Part 6b.  SoundProcessor (sound-processor.cc).  One channel: a frame is *)
(* one sample, so interleaving is the identity on frames.  The scratch     *)
(* buffer_ and the convolver's input plane are sequences of fragm samples; *)
(* position j of the code is element j + 1.  The convolver keeps its input *)
(* plane between calls: process() reads it and does not clear it, reset()  *)
(* zeroes it.  Its response is a single tap of gain Gain, so the image of  *)
(* a sample x is Gain * x and the image of silence is silence.             *)
(***************************************************************************)

\* Bounds of the SoundProcessor runs.
MaxStream == 3
MaxCalls == 6

Gain == 2
Samples == {-3, 5}

Abs(x) == IF x < 0 THEN -x ELSE x

Zeros(n) == [j \in 1..n |-> 0]

Image(frames) == [j \in 1..Len(frames) |-> Gain * frames[j]]

\* Convproc::process: the output plane for an input plane
ConvprocProcess(plane) == Image(plane)

\* sf_readf_float(in, buffer_ + pos, ..) having returned these frames
SfReadfFloat(buf, pos, frames) ==
  [j \in 1..Len(buf) |->
     IF j > pos /\ j <= pos + Len(frames) THEN frames[j - pos] ELSE buf[j]]

\* sf_writef_float that hands over one frame whatever the count.
SfWritefFloatOneFrame(sink, buf, pos, n) == sink \o SubSeq(buf, pos + 1, pos + 1)

\* sf_writef_float(out, buffer_ + pos, n)
SfWritefFloat(sink, buf, pos, n) == sink \o SubSeq(buf, pos + 1, pos + n)

\* The peak loop of Process over source[0 .. n)
RECURSIVE ObservePeak(_, _, _)
ObservePeak(source, n, peak) ==
  IF n = 0 THEN peak
  ELSE LET before == ObservePeak(source, n - 1, peak)
           out_abs == source[n]
       IN  IF out_abs > before THEN out_abs ELSE before

\* SoundProcessor::Process
Process(p) ==
  LET n == p.input_pos_
      zeroed == [j \in 1..p.fragm |-> IF j > n THEN 0 ELSE p.buffer_[j]]
      dest == [j \in 1..p.fragm |-> IF j <= n THEN zeroed[j] ELSE p.inpdata[j]]
      source == ConvprocProcess(dest)
  IN  [p EXCEPT !.buffer_ = [j \in 1..p.fragm |->
                               IF j <= n THEN source[j] ELSE zeroed[j]],
                !.inpdata = dest,
                !.max_out_value_observed_ = ObservePeak(source, n, @),
                !.output_pos_ = 0]

\* SoundProcessor::FillBuffer, the decoder having returned these frames
FillBuffer(p, frames) ==
  [p EXCEPT !.output_pos_ = -1,
            !.buffer_ = SfReadfFloat(@, p.input_pos_, frames),
            !.input_pos_ = @ + Len(frames)]

\* WriteProcessed up to its assert: Process() if output_pos_ < 0
Processed(p) == IF p.output_pos_ < 0 THEN Process(p) ELSE p

\* WriteProcessed that never rewinds the input cursor.
AdvanceOutputOnly(p, sample_count) ==
  [p EXCEPT !.output_pos_ = @ + sample_count]

\* WriteProcessed after its assert: the cursors
AdvanceOutput(p, sample_count) ==
  [p EXCEPT !.output_pos_ = @ + sample_count,
            !.input_pos_ = IF p.output_pos_ + sample_count = p.fragm
                             THEN 0 ELSE @]

\* SoundProcessor::ResetMaxValues
ResetMaxValues(p) == [p EXCEPT !.max_out_value_observed_ = 0]

\* SoundProcessor::Reset
Reset(p) ==
  ResetMaxValues([p EXCEPT !.inpdata = Zeros(p.fragm),
                           !.input_pos_ = 0,
                           !.output_pos_ = -1])

\* SoundProcessor::SoundProcessor
SoundProcessor(fragm) ==
  Reset([fragm |-> fragm, buffer_ |-> Zeros(fragm), inpdata |-> Zeros(fragm),
         input_pos_ |-> 0, output_pos_ |-> 0, max_out_value_observed_ |-> 0])

Streams == UNION {[1..n -> Samples] : n \in 0..MaxStream}

ProcInit ==
  /\ \E fragm \in 1..MaxFragm : sp = SoundProcessor(fragm)
  /\ stream \in Streams
  /\ peak_abs = 0
  /\ dec_pos = 0
  /\ written = << >>
  /\ handed = << >>
  /\ last_r = -1
  /\ protocol = TRUE
  /\ aborted = FALSE
  /\ calls = 0

ProcIdle ==
  /\ sp = SoundProcessor(1)
  /\ stream = << >>
  /\ peak_abs = 0
  /\ dec_pos = 0
  /\ written = << >>
  /\ handed = << >>
  /\ last_r = -1
  /\ protocol = TRUE
  /\ aborted = TRUE
  /\ calls = 0

\* r = FillBuffer(in); the assert stops the program when the buffer is full.
SPFillBuffer ==
  /\ ~aborted
  /\ calls < MaxCalls
  /\ calls' = calls + 1
  /\ IF sp.fragm - sp.input_pos_ = 0
       THEN /\ aborted' = TRUE
            /\ UNCHANGED <<sp, dec_pos, last_r, protocol>>
       ELSE \E r \in 0..Min(sp.fragm - sp.input_pos_, Len(stream) - dec_pos) :
              /\ sp' = FillBuffer(sp, SubSeq(stream, dec_pos + 1, dec_pos + r))
              /\ dec_pos' = dec_pos + r
              /\ last_r' = r
              /\ protocol' = (protocol /\ last_r = -1)
              /\ UNCHANGED aborted
  /\ UNCHANGED <<peak_abs, stream, written, handed>>
  /\ UNCHANGED <<flacVars, handlerVars, threadVars, raceVars>>

\* WriteProcessed(out, sample_count)
SPWriteProcessed ==
  /\ ~aborted
  /\ calls < MaxCalls
  /\ calls' = calls + 1
  /\ \E sample_count \in 0..sp.fragm :
       LET p == Processed(sp)
           ran == sp.output_pos_ < 0
           n == sp.input_pos_
       IN  /\ handed' = IF ran THEN handed \o SubSeq(sp.buffer_, 1, n)
                               ELSE handed
           /\ peak_abs' = IF ran
                            THEN ObservePeak([j \in 1..n |-> Abs(p.buffer_[j])],
                                             n, peak_abs)
                            ELSE peak_abs
           /\ IF sample_count <= p.fragm - p.output_pos_
                THEN /\ written' = SfWritefFloat(written, p.buffer_,
                                                 p.output_pos_, sample_count)
                     /\ sp' = AdvanceOutput(p, sample_count)
                     /\ protocol' = (protocol /\ last_r = sample_count)
                     /\ last_r' = -1
                     /\ UNCHANGED aborted
                ELSE /\ sp' = p
                     /\ aborted' = TRUE
                     /\ UNCHANGED <<written, protocol, last_r>>
  /\ UNCHANGED <<stream, dec_pos>>
  /\ UNCHANGED <<flacVars, handlerVars, threadVars, raceVars>>

\* ResetMaxValues()
SPResetMaxValues ==
  /\ ~aborted
  /\ calls < MaxCalls
  /\ calls' = calls + 1
  /\ sp' = ResetMaxValues(sp)
  /\ peak_abs' = 0
  /\ UNCHANGED <<stream, dec_pos, written, handed, last_r, protocol, aborted>>
  /\ UNCHANGED <<flacVars, handlerVars, threadVars, raceVars>>

\* Reset()
SPReset ==
  /\ ~aborted
  /\ calls < MaxCalls
  /\ calls' = calls + 1
  /\ sp' = Reset(sp)
  /\ peak_abs' = 0
  /\ protocol' = FALSE
  /\ last_r' = -1
  /\ UNCHANGED <<stream, dec_pos, written, handed, aborted>>
  /\ UNCHANGED <<flacVars, handlerVars, threadVars, raceVars>>

(***************************************************************************)
(* Part 6c.  Concurrent Stat.  fill_fstat_file calls Stat without any lock *)
(* and fill_stat_by_filename calls it under open_files_mutex_, which no    *)
(* other caller of the handler takes; read_from_filter drives the producer *)
(* without a lock as well.  Stat is split where it reads or writes the     *)
(* handler: FileSize() against the threshold, input_frames_left_,          *)
(* FileSize() for the estimate, the comparison with file_stat_.st_size,    *)
(* the store, and the copy to *st.  The producer is split between the      *)
(* write to the encoder and the decrement of input_frames_left_.           *)
(***************************************************************************)

\* Bound on the Stat calls begun.
MaxStats == 3

StatThreads == {"handle", "path"}
RaceOrigSizes == {1000, 100000}
RaceHeaderBytes == {44, 500}
RaceEncBytes == {10, 500, 30000}

RaceInit ==
  /\ \E orig_size \in RaceOrigSizes, frames \in 1..MaxFrames,
        enc_header \in RaceHeaderBytes :
       rh = SndFileFilter(InputOf(TRUE, TRUE, TRUE, orig_size, frames, frames,
                                  FALSE, << >>, enc_header))
  /\ rpc = [t \in StatThreads |-> "idle"]
  /\ rdone = [t \in StatThreads |-> 0]
  /\ rnew = [t \in StatThreads |-> -1]
  /\ rret = [t \in StatThreads |-> -1]
  /\ rpend = -1
  /\ rstats = 0

RaceIdle ==
  /\ rh = PassThroughFilter(FALSE)
  /\ rpc = [t \in StatThreads |-> "idle"]
  /\ rdone = [t \in StatThreads |-> 0]
  /\ rnew = [t \in StatThreads |-> -1]
  /\ rret = [t \in StatThreads |-> -1]
  /\ rpend = -1
  /\ rstats = MaxStats

\* Stat: if (output_buffer_->FileSize() > start_estimating_size_)
RStatSize(t) ==
  /\ rh.kind = "snd"
  /\ rpc[t] = "idle"
  /\ rstats < MaxStats
  /\ rstats' = rstats + 1
  /\ rpc' = [rpc EXCEPT ![t] = IF rh.buf > rh.start_estimating_size_
                                 THEN "frames" ELSE "copy"]
  /\ UNCHANGED <<rh, rdone, rnew, rret, rpend>>
  /\ UNCHANGED <<flacVars, handlerVars, threadVars, procVars>>

\* Stat: frames_done = total_frames_ - input_frames_left_; if (frames_done > 0)
RStatFrames(t) ==
  /\ rpc[t] = "frames"
  /\ rdone' = [rdone EXCEPT ![t] = rh.total_frames_ - rh.input_frames_left_]
  /\ rpc' = [rpc EXCEPT ![t] = IF rdone'[t] > 0 THEN "estimate" ELSE "copy"]
  /\ UNCHANGED <<rh, rnew, rret, rpend, rstats>>
  /\ UNCHANGED <<flacVars, handlerVars, threadVars, procVars>>

\* Stat: new_size = estimated_end * output_buffer_->FileSize() + 16384
RStatEstimate(t) ==
  /\ rpc[t] = "estimate"
  /\ rnew' = [rnew EXCEPT ![t] = StatNewSize(rh.total_frames_, rdone[t],
                                              rh.buf)]
  /\ rpc' = [rpc EXCEPT ![t] = "compare"]
  /\ UNCHANGED <<rh, rdone, rret, rpend, rstats>>
  /\ UNCHANGED <<flacVars, handlerVars, threadVars, procVars>>

\* Stat: if (new_size > file_stat_.st_size)
RStatCompare(t) ==
  /\ rpc[t] = "compare"
  /\ rpc' = [rpc EXCEPT ![t] =
               IF StatGoesForward(rnew[t], rh.st_size) THEN "store"
                                                       ELSE "copy"]
  /\ UNCHANGED <<rh, rdone, rnew, rret, rpend, rstats>>
  /\ UNCHANGED <<flacVars, handlerVars, threadVars, procVars>>

\* Stat: file_stat_.st_size = new_size
RStatStore(t) ==
  /\ rpc[t] = "store"
  /\ rh' = [rh EXCEPT !.st_size = rnew[t]]
  /\ rpc' = [rpc EXCEPT ![t] = "copy"]
  /\ UNCHANGED <<rdone, rnew, rret, rpend, rstats>>
  /\ UNCHANGED <<flacVars, handlerVars, threadVars, procVars>>

\* Stat: *st = file_stat_; return 0
RStatCopy(t) ==
  /\ rpc[t] = "copy"
  /\ rret' = [rret EXCEPT ![t] = rh.st_size]
  /\ rpc' = [rpc EXCEPT ![t] = "idle"]
  /\ rnew' = [rnew EXCEPT ![t] = -1]
  /\ UNCHANGED <<rh, rdone, rpend, rstats>>
  /\ UNCHANGED <<flacVars, handlerVars, threadVars, procVars>>

\* AddMoreSoundData up to sf_writef_float: one frame read and written
RProduceWrite ==
  /\ rh.kind = "snd"
  /\ rpend = -1
  /\ rh.input_frames_left_ > 0
  /\ \E enc_bytes \in RaceEncBytes :
       LET h1 == IF rh.convproc = "null" THEN ConfigureConvolver(rh, 1)
                                         ELSE rh
       IN  rh' = BufSndfileWrite(h1, enc_bytes)
  /\ rpend' = 1
  /\ UNCHANGED <<rpc, rdone, rnew, rret, rstats>>
  /\ UNCHANGED <<flacVars, handlerVars, threadVars, procVars>>

\* AddMoreSoundData: input_frames_left_ -= r
RProduceCount ==
  /\ rpend # -1
  /\ rh' = [rh EXCEPT !.input_frames_left_ = @ - rpend, !.dec_left = @ - rpend]
  /\ rpend' = -1
  /\ UNCHANGED <<rpc, rdone, rnew, rret, rstats>>
  /\ UNCHANGED <<flacVars, handlerVars, threadVars, procVars>>

(***************************************************************************)
(* Part 7.  Specifications.                                                *)
(***************************************************************************)

\* The threaded interface.
Init == FlacIdle /\ HandlerIdle /\ ThreadInit /\ ProcIdle /\ RaceIdle

Next ==
  \/ \E t \in Threads : TCreate(t)
  \/ \E t \in Threads : TInsert(t)
  \/ \E t \in Threads : TRead(t)
  \/ \E t \in Threads : TPullExhausted(t)
  \/ \E t \in Threads : TPullConfig(t)
  \/ \E t \in Threads : TConfigDone(t)
  \/ \E t \in Threads : TProduce(t)
  \/ \E t \in Threads : TProduceCount(t)
  \/ \E t \in Threads : TPullReturn(t)
  \/ \E t \in Threads : TFstat(t)
  \/ \E t \in Threads : TStatFrames(t)
  \/ \E t \in Threads : TStatEstimate(t)
  \/ \E t \in Threads : TStatCompare(t)
  \/ \E t \in Threads : TStatStore(t)
  \/ \E t \in Threads : TStatCopy(t)
  \/ \E t \in Threads : TNameLookup(t)
  \/ \E t \in Threads : TNameStat(t)
  \/ \E t \in Threads : TCloseBegin(t)
  \/ \E t \in Threads : TCloseErase(t)
  \/ \E t \in Threads : TCloseDelete(t)
  \/ \E t \in Threads : TProcessorCreate(t)
  \/ \E t \in Threads : TProcessorCreated(t)

Spec == Init /\ [][Next]_vars

\* One convolving handler, a reading thread and a thread calling Stat.
HandlerSpecInit == FlacIdle /\ HandlerInit /\ ThreadInit /\ ProcIdle /\ RaceIdle

HandlerNext ==
  \/ HRead
  \/ HAddMore
  \/ HAddMoreCount
  \/ HReadReturn
  \/ HStat
  \/ HStatFrames
  \/ HStatEstimate
  \/ HStatCompare
  \/ HStatStore
  \/ HStatCopy
  \/ HClose

SpecHandler == HandlerSpecInit /\ [][HandlerNext]_vars

\* The same handler with the loop of the conversion buffer's Read running:
\* while a Read pulls, the producer is called again and again, each call
\* runs to its end, and the Read returns once it may.
SpecHandlerFair ==
  SpecHandler /\ WF_vars(HAddMore) /\ WF_vars(HAddMoreCount)
              /\ WF_vars(HReadReturn)

\* The FLAC header splice on every bounded input file.
FlacSpecInit == FlacInit /\ HandlerIdle /\ ThreadInit /\ ProcIdle /\ RaceIdle

FlacNext == RunCopyFlacHeader

SpecFlac == FlacSpecInit /\ [][FlacNext]_vars

\* One SoundProcessor driven by Reset, FillBuffer and WriteProcessed calls.
ProcSpecInit == FlacIdle /\ HandlerIdle /\ ThreadInit /\ ProcInit /\ RaceIdle

ProcNext ==
  \/ SPFillBuffer
  \/ SPWriteProcessed
  \/ SPResetMaxValues
  \/ SPReset

SpecProcessor == ProcSpecInit /\ [][ProcNext]_vars

\* One convolving handler, two threads in Stat and a reader producing.
RaceSpecInit ==
  FlacIdle /\ HandlerIdle /\ ThreadInit /\ ProcIdle /\ RaceInit

RaceNext ==
  \/ \E t \in StatThreads : RStatSize(t)
  \/ \E t \in StatThreads : RStatFrames(t)
  \/ \E t \in StatThreads : RStatEstimate(t)
  \/ \E t \in StatThreads : RStatCompare(t)
  \/ \E t \in StatThreads : RStatStore(t)
  \/ \E t \in StatThreads : RStatCopy(t)
  \/ RProduceWrite
  \/ RProduceCount

SpecRace == RaceSpecInit /\ [][RaceNext]_vars

(***************************************************************************)
(* Part 8.  Properties.                                                    *)
(***************************************************************************)

\* The step on which a Stat call returns.
StatReturns == spc = "stat_copy" /\ spc' = "none"

\* The step on which the reading thread enters Read.
ReadBegins == hpc = "idle" /\ call'.op = "Read" /\ spc' = spc

\* The step on which the reading thread calls Close.
CloseBegins == hpc = "idle" /\ hpc' = "closed"

\* C1: the st_size values returned by successive Stat calls on one convolving
\* handler never decrease, whatever Reads and producer steps come between.
StatSizeNonDecreasing == [][stat_ret >= 0 => stat_ret' >= stat_ret]_vars

\* A Stat computed an estimate below the size an earlier Stat reported and
\* is about to report the earlier size again.
StatKeptLargerSize ==
  /\ spc = "stat_copy"
  /\ hlocal.new_size # -1
  /\ hlocal.new_size < snd.st_size
  /\ stat_ret = snd.st_size

\* C2: the open-file map holds an entry for a path exactly while more opens
\* than closes of that path have happened.
MapEntryIffOutstandingOpen ==
  \A p \in Paths : (open_files_[p] # 0) <=> (opens[p] - closes[p] > 0)

\* C3: two handles open on the same path at the same time are one handler.
HoldsHandle(t) == tpc[t] \in {"open", "pull", "config", "produce"}
OpensDeduplicated ==
  \A t1, t2 \in Threads :
    (HoldsHandle(t1) /\ HoldsHandle(t2) /\ tpath[t1] = tpath[t2])
      => thandle[t1] = thandle[t2]

\* A thread is inside fill_stat_by_filename's Stat: it holds the map's mutex
\* across steps (create_filter and close_filter take and release it within
\* one step).
InStatByPath(t) == open_files_mutex_ = t

\* C4: no Read and no Stat, by handle or by path, runs on a deleted handler,
\* and the map never refers to a deleted handler.
NoCallOnDeletedHandler ==
  /\ ~ran_on_deleted
  /\ \A t \in Threads : InStatByPath(t) => life[tfound[t]] = "live"
  /\ \A p \in Paths : open_files_[p] # 0 => life[open_files_[p]] = "live"

\* Stat-by-path holds a handler whose owner is already inside close_filter,
\* past Close() and waiting for the map's mutex.
StatByPathRacesClose ==
  \E t, u \in Threads :
    /\ tpc[t] = "name_stat"
    /\ tpc[u] = "close_erase"
    /\ thandle[u] = tfound[t]

\* C5: at most one thread is inside the convolver configuration call.
InConfig(t) == tpc[t] \in {"config", "sp_config"}
ConfigSerialised == Cardinality({t \in Threads : InConfig(t)}) <= 1

\* C6: the error flag of a handler stays set; while it is set no step changes
\* the conversion buffer or the frames left, every Read returns a negative
\* value without pulling, and Close closes the decoder and the descriptor.
ErrorSticks ==
  [][snd.error_ =>
       /\ snd'.error_
       /\ snd'.buf = snd.buf
       /\ snd'.input_frames_left_ = snd.input_frames_left_
       /\ ReadBegins => (read_ret' < 0 /\ hpc' = "idle")
       /\ CloseBegins => (~snd'.snd_in_open /\ ~snd'.filedes_open)]_vars

\* A handler in error state was read, the Read failed, and it was closed.
ErrorHandlerReadAndClosed ==
  /\ snd.kind = "snd"
  /\ snd.error_
  /\ read_ret = -1
  /\ hpc = "closed"
  /\ ~snd.snd_in_open
  /\ ~snd.filedes_open

\* C7: a Read on a handler without error takes the end-of-file shortcut
\* (returns size, changes nothing) exactly when offset > FileSize() and
\* offset + size equals the reported size; any other Read is delegated.
EofSkipExactlyAtReportedEnd ==
  [][(ReadBegins /\ ~snd.error_) =>
       IF IntLessOff(snd.buf, call'.off)
          /\ OffEqInt(OffAdd(call'.off, call'.size), snd.st_size)
         THEN read_ret' = call'.size /\ snd' = snd /\ hpc' = "idle"
         ELSE hpc' = "pull"]_vars

\* C8: create_filter returns a handler registered under its path: a
\* convolving one exactly when the decoder opened the file and the filter
\* config was readable, else a pass-through one; the descriptor is open.
CreateYieldsRegisteredHandler ==
  [][\A t \in Threads :
       (tpc[t] = "insert" /\ tpc'[t] = "open") =>
         LET id == thandle[t]
         IN  /\ id # 0
             /\ life'[id] = "live"
             /\ open_files_'[tpath[t]] = id
             /\ obj'[id].kind \in {"snd", "pass"}
             /\ obj'[id].kind = "snd"
                  <=> (created[id].decoder_ok /\ created[id].config_ok)
             /\ obj'[id].filedes_open]_vars

\* A file the decoder opened but that has no filter config is open as a
\* registered pass-through handler over its open descriptor.
PassThroughForMissingConfig ==
  \E t \in Threads :
    /\ tpc[t] = "open"
    /\ obj[thandle[t]].kind = "pass"
    /\ created[thandle[t]].decoder_ok
    /\ ~created[thandle[t]].config_ok
    /\ obj[thandle[t]].filedes_open
    /\ open_files_[tpath[t]] = thandle[t]

\* The metadata blocks a FLAC reader finds in bytes from position pos on.
RECURSIVE ParseBlocks(_, _)
ParseBlocks(bytes, pos) ==
  LET header == Pread(bytes, pos, 4)
  IN  IF Len(header) # 4 THEN << >>
      ELSE <<[last |-> header[1] \div 128 = 1, type |-> header[1] % 128,
              len |-> header[2] * 65536 + header[3] * 256 + header[4]]>>
           \o ParseBlocks(bytes, pos + 4 + header[2] * 65536
                                     + header[3] * 256 + header[4])

\* C9: whatever the input chain, exactly one block of the spliced chain has
\* the last-block flag, and it is the final block.
ExactlyOneLastFlag ==
  flac_ran =>
    LET blocks == ParseBlocks(flac_out, 4)
    IN  /\ Len(blocks) >= 1
        /\ blocks[Len(blocks)].last
        /\ \A i \in 1..(Len(blocks) - 1) : ~blocks[i].last

\* The input's chain up to and including its first block flagged last.
RECURSIVE UpToLast(_)
UpToLast(chain) ==
  IF chain = << >> THEN << >>
  ELSE IF Head(chain).last THEN <<Head(chain)>>
  ELSE <<Head(chain)>> \o UpToLast(Tail(chain))

IsNotSeektable(b) == b.type # 3

RECURSIVE ChainLength(_)
ChainLength(chain) ==
  IF chain = << >> THEN 0 ELSE 4 + Head(chain).len + ChainLength(Tail(chain))

\* A complete FLAC file: its chain has a block flagged last and no byte of
\* the chain is missing.
CompleteFlacInput ==
  /\ \E i \in 1..Len(flac_chain) : flac_chain[i].last
  /\ flac_cut <= 2

ExpectedSplice ==
  LET pre == UpToLast(flac_chain)
      kept == SelectSeq(pre, IsNotSeektable)
  IN  IF pre[Len(pre)].type = 3
        THEN kept \o <<[last |-> TRUE, type |-> 1, len |-> 0]>>
        ELSE kept

\* C10: for a complete FLAC input the spliced chain is the input chain
\* without its SEEKTABLE blocks, the rest in order and in full, followed by
\* an empty PADDING block flagged last exactly when the input's last block
\* was a SEEKTABLE.
SpliceDropsSeektables ==
  (flac_ran /\ CompleteFlacInput) =>
    LET blocks == ParseBlocks(flac_out, 4)
    IN  /\ blocks = ExpectedSplice
        /\ \A i \in 1..Len(blocks) : blocks[i].type # 3
        /\ Len(flac_out) = 4 + ChainLength(ExpectedSplice)
        /\ SubSeq(flac_out, 1, 4) = fLaC

\* STREAMINFO followed by a SEEKTABLE flagged last was spliced into
\* STREAMINFO followed by the synthesised PADDING.
SeektableLastSpliced ==
  /\ flac_ran
  /\ flac_cut = 0
  /\ Len(flac_chain) = 2
  /\ flac_chain[1] = [last |-> FALSE, type |-> 0, len |-> 34]
  /\ flac_chain[2].type = 3
  /\ flac_chain[2].last
  /\ ParseBlocks(flac_out, 4) =
       <<flac_chain[1], [last |-> TRUE, type |-> 1, len |-> 0]>>

\* C11: for a FLAC input the conversion buffer holds, when HeaderFinished is
\* signalled, exactly the marker and the spliced chain and no byte from the
\* encoder; encoder writes are enabled from then until Close.
FlacHeaderHoldsOnlySplice ==
  (snd.kind = "snd" /\ snd.copy_flac_header_ /\ snd.header_finished) =>
    /\ snd.header_end = Len(snd.direct)
    /\ SubSeq(snd.direct, 1, 4) = fLaC
    /\ snd.direct = CopyFlacHeader(snd.file)
    /\ snd.buf >= snd.header_end
    /\ hpc # "closed" => snd.writes_enabled

\* The encoder's header bytes were dropped and audio followed the splice.
EncoderHeaderDropped ==
  /\ snd.kind = "snd"
  /\ snd.copy_flac_header_
  /\ snd.header_finished
  /\ snd.dropped > 0
  /\ snd.header_end = Len(snd.direct)
  /\ snd.buf > snd.header_end

\* C12: a Stat made once all input frames are consumed reports a size within
\* 32 KiB of the final size of the conversion buffer (stated for a handler
\* without error, with frames, whose output passed the estimate threshold,
\* and for a Stat that found all frames done when it read the frames left).
FinalStatWithin32K ==
  [][(StatReturns
      /\ ~snd.error_ /\ snd.total_frames_ > 0
      /\ snd.buf > snd.start_estimating_size_
      /\ snd.input_frames_left_ = 0
      /\ hlocal.frames_done = snd.total_frames_) =>
       /\ stat_ret' - snd.buf <= 32768
       /\ snd.buf - stat_ret' <= 32768]_vars

\* C14: the frames-remaining counter R stays within 0..T and never increases;
\* a producer step taken with R = 0 returns false and leaves decoder, encoder
\* and buffer untouched; a step taken with R > 0 lowers R by the frames the
\* decoder returned (after it has written them) and returns true exactly
\* when the new R is non-zero.
ProducerStepCountsFrames ==
  [][/\ 0 <= snd'.input_frames_left_
     /\ snd'.input_frames_left_ <= snd'.total_frames_
     /\ snd'.input_frames_left_ <= snd.input_frames_left_
     /\ snd'.total_frames_ = snd.total_frames_
     /\ HAddMore =>
          IF snd.input_frames_left_ = 0
            THEN eos' /\ snd' = snd /\ hpc' = "pull"
            ELSE /\ snd'.input_frames_left_ = snd.input_frames_left_
                 /\ hlocal'.r >= 0
                 /\ hpc' = "count"
     /\ HAddMoreCount =>
          /\ snd.input_frames_left_ - snd'.input_frames_left_ = hlocal.r
          /\ snd.dec_left - snd'.dec_left = hlocal.r
          /\ snd'.buf = snd.buf
          /\ eos' = (snd'.input_frames_left_ = 0)]_vars

ProducerReachedEnd ==
  /\ snd.kind = "snd" /\ ~snd.error_
  /\ snd.total_frames_ > 0 /\ snd.input_frames_left_ = 0
  /\ snd.buf > snd.header_end
  /\ hpc = "pull" /\ eos

\* C19: a handler reachable through the open-file map, or held by a running
\* stat-by-path, has not had Close() run: its descriptor is still open.
MapHandlersNotClosed ==
  /\ \A t \in Threads :
       InStatByPath(t) => obj[tfound[t]].filedes_open
  /\ \A p \in Paths :
       open_files_[p] # 0 => obj[open_files_[p]].filedes_open

\* C13: under cycles r = FillBuffer(); WriteProcessed(r) the frames written
\* to the encoder number the frames read from the decoder (between the two
\* calls of a cycle the r frames just read are still to be written).
FramesInEqualFramesOut ==
  protocol =>
    Len(written) + (IF last_r >= 0 THEN last_r ELSE 0) = dec_pos

ShortLastFragmentWritten ==
  /\ protocol /\ ~aborted /\ last_r = -1
  /\ sp.fragm = 2 /\ Len(stream) = 3
  /\ dec_pos = 3 /\ Len(written) = 3
  /\ sp.output_pos_ = 1

\* C15: the input cursor stays in 0..F and the output cursor in -1..F;
\* FillBuffer sets out = -1; WriteProcessed sets in = 0 exactly when out
\* reaches F, after which in < F.
CursorsInRange(p) ==
  /\ p.input_pos_ \in 0..p.fragm
  /\ p.output_pos_ \in -1..p.fragm

CursorInvariant ==
  [][/\ CursorsInRange(sp) /\ CursorsInRange(sp')
     /\ (SPFillBuffer /\ ~aborted') => sp'.output_pos_ = -1
     /\ (SPWriteProcessed /\ ~aborted') =>
          /\ sp'.input_pos_ = IF sp'.output_pos_ = sp.fragm
                                THEN 0 ELSE sp.input_pos_
          /\ sp'.output_pos_ = sp.fragm => sp'.input_pos_ < sp.fragm]_vars

FragmentDrainedInputRewound ==
  /\ ~aborted /\ sp.fragm = 2 /\ dec_pos = 2
  /\ sp.output_pos_ = sp.fragm /\ sp.input_pos_ = 0
  /\ Len(written) = 2

\* C16: the block Process hands to the convolver is the input_pos_ frames of
\* the fragment followed by zero samples.
ProcessedBlockZeroPadded ==
  [][(sp.output_pos_ < 0 /\ sp'.output_pos_ >= 0 /\ sp.input_pos_ > 0) =>
       \A j \in (sp.input_pos_ + 1)..sp.fragm : sp'.inpdata[j] = 0]_vars

\* C17: the observed peak is the largest absolute value among the output
\* samples produced since the last Reset (or ResetMaxValues).
PeakIsMaxAbsolute == sp.max_out_value_observed_ = peak_abs

\* C20: under cycles r = FillBuffer(); WriteProcessed(r) the frames handed
\* to the convolver are the frames read, once each and in order, and the
\* frames written are their images.
ConvolvedOnceInOrder ==
  protocol =>
    /\ Len(handed) <= dec_pos
    /\ handed = SubSeq(stream, 1, Len(handed))
    /\ Len(written) <= dec_pos
    /\ written = Image(SubSeq(stream, 1, Len(written)))

\* C18: with two threads in Stat and a reader producing, the size stored in
\* the handler never decreases.
ConcurrentStatNonDecreasing ==
  [][rh'.st_size >= rh.st_size]_vars

\* C21: the size a Stat call returns is at least the conversion buffer's
\* size at that moment (stated for a handler without error whose original
\* file is not empty, before the producer has written any frame, so that the
\* buffer is as the constructor left it all through the call).
StatCoversProducedBytes ==
  [][(StatReturns
      /\ ~snd.error_ /\ snd.total_frames_ > 0 /\ stat_ret' > 0
      /\ snd.input_frames_left_ = snd.total_frames_ /\ hpc # "count") =>
       stat_ret' >= snd'.buf]_vars

\* C22: driving the producer terminates: a Read that pulls eventually
\* returns, whatever the decoder delivers.
PullingReadReturns == (hpc = "pull") ~> (hpc = "idle")

====
